---- MODULE Spec2Model ----
(***************************************************************************)
(* Model of the delivery traffic service: the /traffic/flow and            *)
(* /traffic/route handlers (app/routes/traffic.py), the HERE client        *)
(* (app/services/here_client.py), the Redis cache manager                  *)
(* (app/utils/cache_manager.py) and the response schemas                   *)
(* (app/schemas/traffic.py).                                               *)
(*                                                                         *)
(* Time is counted in whole minutes.  Speeds are whole km/h.  Python       *)
(* exceptions are records [type, status, lastType, lastStatus]; a tenacity *)
(* RetryError carries the type and status of its last attempt.             *)
(***************************************************************************)
EXTENDS Integers, Sequences, FiniteSets, TLC

VARIABLES
    now,                 \* datetime.utcnow(), in minutes
    redisUp,             \* CacheManager.redis_client is not None
    cacheExpiryMinutes,  \* int(os.getenv("CACHE_EXPIRY_MINUTES", 5))
    fast,                \* Redis: key -> NoEntry or [val, exp]
    durable,             \* rows of delivery_traffic_service.traffic_cache
    flowCalls,           \* GETs issued to <base_url>/flow by /traffic/flow
    last,                \* the /traffic/flow request handled last since the clock moved, and what it did
    origin,              \* cache_id -> key and outcome of the request that inserted the row
    calls,               \* upstream invocations made by the client operation so far
    op,                  \* the HereClient operation in progress or finished, with its locals
    result,              \* what the operation returned or raised, and what the route handler answered
    cacheOp,             \* the CacheManager method called last on its own, and what it gave
    pure,                \* the static method applied last, its arguments and its value
    loop                 \* the server's event loop: the requests it was handed and the one running on it

flowVars == <<now, redisUp, cacheExpiryMinutes, fast, durable, flowCalls, last, origin>>
clientVars == <<calls, op, result>>
vars == <<now, redisUp, cacheExpiryMinutes, fast, durable, flowCalls, last, origin,
          calls, op, result, cacheOp, pure, loop>>

----------------------------------------------------------------------------
(* Bounds of the model *)

MaxTicks == 2
TickMinutes == 3
MaxCold == 2
MaxWaypoints == 3
MaxSpeed == 10
MaxParams == 2
MaxRequests == 3

\* the (lat, lng, radius) a request may carry
Places == { <<1, 3, 100>>, <<1, 3, 1000>>, <<2, 3, 100>> }
ExpiryChoices == {0, 5, 10}

----------------------------------------------------------------------------
(* Exceptions *)

NoExc == [type |-> "none", status |-> 0, lastType |-> "none", lastStatus |-> 0, detail |-> ""]

Exc(t, s) == [type |-> t, status |-> s, lastType |-> "none", lastStatus |-> 0, detail |-> ""]

\* fastapi.HTTPException(status_code=s, detail=d)
HTTPException(s, d) ==
    [type |-> "HTTPException", status |-> s, lastType |-> "none", lastStatus |-> 0, detail |-> d]

----------------------------------------------------------------------------
(* Upstream (HERE) answers *)

HttpStatuses == {200, 400, 429, 500}

Samples == { [speed |-> 30, freeFlow |-> 60, jamFactor |-> 5] }

FlowBodies == { <<s>> : s \in Samples }

\* what requests.get(...) does: an HTTP response, a timeout or a connection failure
Http(s, b) == [kind |-> "http", status |-> s, body |-> b]
Timeout == [kind |-> "timeout", status |-> 0, body |-> <<>>]
ConnFail == [kind |-> "connection", status |-> 0, body |-> <<>>]

FlowAnswers == { Http(200, b) : b \in FlowBodies }
                 \cup { Http(s, <<>>) : s \in HttpStatuses \ {200} }
                 \cup { Timeout, ConnFail }

\* requests.get followed by response.raise_for_status(): the exception raised, if any
RequestRaises(ans) ==
    IF ans.kind = "timeout" THEN Exc("Timeout", 0)
    ELSE IF ans.kind = "connection" THEN Exc("ConnectionError", 0)
    ELSE IF ans.status >= 400 THEN Exc("HTTPError", ans.status)
    ELSE NoExc

----------------------------------------------------------------------------
(* HereClient: congestion level and the flow fetch *)

determine_congestion_level_strict(current_speed, free_flow_speed) ==
    IF free_flow_speed = 0 THEN "UNKNOWN"
    ELSE IF 10 * current_speed > 8 * free_flow_speed THEN "LOW"
    ELSE IF 10 * current_speed > 6 * free_flow_speed THEN "MODERATE"
    ELSE IF 10 * current_speed > 4 * free_flow_speed THEN "HIGH"
    ELSE "SEVERE"

\* speed_ratio = current_speed / free_flow_speed compared with 0.8, 0.6, 0.4
determine_congestion_level(current_speed, free_flow_speed) ==
    IF free_flow_speed = 0 THEN "UNKNOWN"
    ELSE IF 10 * current_speed >= 8 * free_flow_speed THEN "LOW"
    ELSE IF 10 * current_speed >= 6 * free_flow_speed THEN "MODERATE"
    ELSE IF 10 * current_speed >= 4 * free_flow_speed THEN "HIGH"
    ELSE "SEVERE"

\* congestion_factor is kept in tenths: 1.0 + jam_factor / 10.0
parse_traffic_flow_response(body, lat, lng) ==
    IF Len(body) > 0
    THEN [ road_segment_id |-> <<"unknown", lat, lng>>,
           current_speed_kmph |-> body[1].speed,
           free_flow_speed_kmph |-> body[1].freeFlow,
           congestion_factor |-> 10 + body[1].jamFactor,
           congestion_level |-> determine_congestion_level(body[1].speed, body[1].freeFlow),
           confidence_level |-> 70,
           start_latitude |-> lat,
           start_longitude |-> lng,
           end_latitude |-> lat,
           end_longitude |-> lng ]
    ELSE [ road_segment_id |-> <<"default", lat, lng>>,
           current_speed_kmph |-> 50,
           free_flow_speed_kmph |-> 60,
           congestion_factor |-> 10,
           congestion_level |-> "LOW",
           confidence_level |-> 50,
           start_latitude |-> lat,
           start_longitude |-> lng,
           end_latitude |-> lat,
           end_longitude |-> lng ]

\* HereClient.get_traffic_flow: one GET, raise_for_status, parse. No retry.
\* [exc, data]: exc is NoExc when data was returned.
here_get_traffic_flow(ans, lat, lng) ==
    IF RequestRaises(ans) # NoExc
    THEN [exc |-> RequestRaises(ans), data |-> <<>>]
    ELSE [exc |-> NoExc, data |-> parse_traffic_flow_response(ans.body, lat, lng)]

----------------------------------------------------------------------------
(* CacheManager *)

NoEntry == [val |-> <<>>, exp |-> -1]

\* exp of a key stored without expiry, for which Redis reports a TTL of -1
Persistent == -2

HasEntry(key) == fast[key].exp # -1

\* the key is in the store and its time to live has not run out
Live(key) == HasEntry(key) /\ (fast[key].exp = Persistent \/ fast[key].exp > now)

\* generate_cache_key as the handler calls it: the prefix, then "k:v" for lat, lng
\* and radius, sorted by name. The parts stand for the joined string: with these
\* fixed names and numbers as values the string determines the parts. The string
\* itself is generate_cache_key_kwargs below.
generate_cache_key(prefix, lat, lng, radius) ==
    <<prefix, <<"lat", lat>>, <<"lng", lng>>, <<"radius", radius>>>>

Keys == { generate_cache_key("traffic_flow", p[1], p[2], p[3]) : p \in Places }

\* the keys of the Redis instance: the handler's, a key under the "route" prefix and
\* a key of another prefix
RouteKey == <<"route", <<"origin", 1>>, <<"destination", 2>>>>
OtherKey == <<"session", <<"id", 1>>>>
StoreKeys == Keys \cup {RouteKey, OtherKey}

\* json.dumps(value, default=str) then json.loads: the datetimes come back as strings
JsonRoundTrip(value) ==
    [value EXCEPT !.cached_at = <<"str", @>>, !.expires_at = <<"str", @>>]

\* CacheManager.get: [hit, val]; a miss without a client, when the store fails, or
\* when the key is absent or expired.
\* redisFails: the store raises redis.RedisError during this call.
cache_get(key, redisFails) ==
    IF ~redisUp THEN [hit |-> FALSE, val |-> <<>>]
    ELSE IF redisFails THEN [hit |-> FALSE, val |-> <<>>]
    ELSE IF Live(key) THEN [hit |-> TRUE, val |-> fast[key].val]
    ELSE [hit |-> FALSE, val |-> <<>>]

\* CacheManager.set: [ret, exc, store]. The handler of the store's failure names
\* json.JSONEncodeError, which the json module does not have: evaluating the
\* except clause raises AttributeError.
cache_set(key, value, ttl_minutes, redisFails) ==
    IF ~redisUp THEN [ret |-> FALSE, exc |-> NoExc, store |-> fast]
    ELSE IF redisFails THEN [ret |-> FALSE, exc |-> Exc("AttributeError", 0), store |-> fast]
    ELSE [ret |-> TRUE, exc |-> NoExc,
          store |-> [fast EXCEPT ![key] = [val |-> JsonRoundTrip(value), exp |-> now + ttl_minutes]]]

\* CacheManager.delete: [ret, exc, store]
cache_delete(key, redisFails) ==
    IF ~redisUp THEN [ret |-> FALSE, exc |-> NoExc, store |-> fast]
    ELSE IF redisFails THEN [ret |-> FALSE, exc |-> NoExc, store |-> fast]
    ELSE [ret |-> TRUE, exc |-> NoExc, store |-> [fast EXCEPT ![key] = NoEntry]]

\* redis_client.keys(prefix + ":*")
redis_keys(prefix) == { k \in DOMAIN fast : Live(k) /\ k[1] = prefix }

\* redis_client.ttl(key), in seconds: -2 for a key that is not there, -1 for a key
\* without expiry
redis_ttl(key) ==
    IF ~Live(key) THEN -2
    ELSE IF fast[key].exp = Persistent THEN -1
    ELSE (fast[key].exp - now) * 60

ClearedKeysByAge(minutes) ==
    { key \in redis_keys("traffic_flow") \cup redis_keys("route") :
        \/ redis_ttl(key) = -1 \/ redis_ttl(key) <= 0
        \/ 300 - redis_ttl(key) >= minutes * 60 }

\* the keys clear_expired deletes: cutoff_time is computed from minutes and not used
ClearedKeys(minutes) ==
    { key \in redis_keys("traffic_flow") \cup redis_keys("route") :
        redis_ttl(key) = -1 \/ redis_ttl(key) <= 0 }

\* CacheManager.clear_expired: [ret, store]; 0 without a client or when the store fails
clear_expired(minutes, redisFails) ==
    IF ~redisUp THEN [ret |-> 0, store |-> fast]
    ELSE IF redisFails THEN [ret |-> 0, store |-> fast]
    ELSE [ret |-> Cardinality(ClearedKeys(minutes)),
          store |-> [k \in DOMAIN fast |-> IF k \in ClearedKeys(minutes) THEN NoEntry ELSE fast[k]]]

----------------------------------------------------------------------------
(* Response schema *)

TrafficFlowResponseFields ==
    {"road_segment_id", "start_latitude", "start_longitude", "end_latitude", "end_longitude",
     "current_speed_kmph", "free_flow_speed_kmph", "confidence_level", "congestion_level",
     "congestion_factor"}

\* TrafficFlowResponse(**d): every field is required; other keys are ignored
TrafficFlowResponse(d) ==
    IF TrafficFlowResponseFields \subseteq DOMAIN d
    THEN [exc |-> NoExc, rec |-> [f \in TrafficFlowResponseFields |-> d[f]]]
    ELSE [exc |-> Exc("ValidationError", 0), rec |-> <<>>]

----------------------------------------------------------------------------
(* /traffic/flow: get_traffic_flow *)

FastTtlMinutes == 5

\* what the caller of /traffic/flow gets: a TrafficFlowResponse or an HTTP error
Responded(rec) == [kind |-> "record", status |-> 200, detail |-> "", rec |-> rec]
Failed(e) == [kind |-> "error", status |-> e.status, detail |-> e.detail, rec |-> <<>>]

NoRequest ==
    [lat |-> 0, lng |-> 0, radius |-> 0, force |-> FALSE, path |-> "none", src |-> 0,
     fastRead |-> FALSE, durableRead |-> FALSE, upstream |-> FALSE, classified |-> FALSE,
     durableWrite |-> FALSE, fastWrite |-> FALSE, fetchExc |-> NoExc,
     outcome |-> Failed(NoExc)]

NoOrigin == [key |-> <<>>, outcome |-> Failed(NoExc)]

\* the dict both handlers' branches build from a traffic_cache row
cache_data_of(row) ==
    [ cache_id |-> row.cache_id,
      road_segment_id |-> row.road_segment_id,
      start_latitude |-> row.start_latitude,
      start_longitude |-> row.start_longitude,
      current_speed_kmph |-> row.current_speed_kmph,
      free_flow_speed_kmph |-> row.free_flow_speed_kmph,
      confidence_level |-> row.confidence_level,
      congestion_level |-> row.congestion_level,
      cached_at |-> row.cached_at,
      expires_at |-> row.expires_at ]

DurableQueryNoExpiry(lat, lng, t) ==
    { row \in durable : row.start_latitude = lat /\ row.start_longitude = lng }

\* db.query(TrafficCache).filter(start_latitude == lat, start_longitude == lng,
\* expires_at > now): the rows .first() may return
DurableQuery(lat, lng, t) ==
    { row \in durable : /\ row.start_latitude = lat
                        /\ row.start_longitude = lng
                        /\ row.expires_at > t }

\* the block "If upstream returned rate limit, propagate a clear 429": the
\* HTTPException(429) is raised inside try ... except Exception: pass
RateLimitBlock(e) ==
    LET underlying == IF e.type = "RetryError" /\ e.lastType # "none"
                      THEN Exc(e.lastType, e.lastStatus) ELSE e
        raised == IF underlying.type = "HTTPError" /\ underlying.status = 429
                  THEN HTTPException(429, "Rate limit reached for HERE API")
                  ELSE NoExc
        escapes == IF raised # NoExc THEN NoExc ELSE NoExc
    IN escapes

\* the inner handler "except Exception as e": what it raises
InnerExcept(e) ==
    IF RateLimitBlock(e) # NoExc THEN RateLimitBlock(e)
    ELSE HTTPException(500, "Failed to fetch traffic data")

\* the outer handler "except Exception": what it raises (an HTTPException is an Exception)
OuterExcept(e) == HTTPException(500, "Internal server error")

\* the speeds the handler classifies: means over here_data.get("results", []).
\* here_data is the dict _parse_traffic_flow_response built, which has no "results"
\* key, so the lists stay empty and both speeds are 0.
HandlerSpeeds(here_data) ==
    IF "results" \in DOMAIN here_data /\ Len(here_data.results) > 0
    THEN [current |-> here_data.results[1].speed, free |-> here_data.results[1].freeFlow]
    ELSE [current |-> 0, free |-> 0]

\* TrafficCache(...): the row the handler inserts
NewRow(id, here_data, t) ==
    [ cache_id |-> id,
      road_segment_id |-> here_data.road_segment_id,
      start_latitude |-> here_data.start_latitude,
      start_longitude |-> here_data.start_longitude,
      end_latitude |-> here_data.end_latitude,
      end_longitude |-> here_data.end_longitude,
      current_speed_kmph |-> here_data.current_speed_kmph,
      free_flow_speed_kmph |-> here_data.free_flow_speed_kmph,
      confidence_level |-> here_data.confidence_level,
      congestion_level |-> determine_congestion_level(HandlerSpeeds(here_data).current,
                                                      HandlerSpeeds(here_data).free),
      cached_at |-> t,
      expires_at |-> t + cacheExpiryMinutes ]

Request(lat, lng, radius, force) ==
    [NoRequest EXCEPT !.lat = lat, !.lng = lng, !.radius = radius, !.force = force]

\* return TrafficFlowResponse(**d) inside the outer try only
RespondOuter(d) ==
    IF TrafficFlowResponse(d).exc = NoExc THEN Responded(TrafficFlowResponse(d).rec)
    ELSE Failed(OuterExcept(TrafficFlowResponse(d).exc))

\* return TrafficFlowResponse(**d) inside the inner try
RespondInner(d) ==
    IF TrafficFlowResponse(d).exc = NoExc THEN Responded(TrafficFlowResponse(d).rec)
    ELSE Failed(OuterExcept(InnerExcept(TrafficFlowResponse(d).exc)))

\* lines 39-43: the Redis hit
FastHit(lat, lng, radius, rfGet) ==
    LET key == generate_cache_key("traffic_flow", lat, lng, radius)
        cached == cache_get(key, rfGet)
    IN /\ cached.hit
       /\ last' = [Request(lat, lng, radius, FALSE) EXCEPT
                     !.path = "fast", !.src = cached.val.cache_id, !.fastRead = TRUE,
                     !.outcome = RespondOuter(cached.val)]
       /\ UNCHANGED <<now, redisUp, cacheExpiryMinutes, fast, durable, flowCalls, origin>>

\* lines 46-70: the database hit and its promotion into Redis
DurableHit(lat, lng, radius, rfGet, rfSet) ==
    LET key == generate_cache_key("traffic_flow", lat, lng, radius)
    IN /\ ~cache_get(key, rfGet).hit
       /\ \E db_cached \in DurableQuery(lat, lng, now) :
            LET cache_data == cache_data_of(db_cached)
                set == cache_set(key, cache_data, FastTtlMinutes, rfSet)
            IN /\ fast' = set.store
               /\ last' = [Request(lat, lng, radius, FALSE) EXCEPT
                             !.path = "durable", !.src = db_cached.cache_id,
                             !.fastRead = TRUE, !.durableRead = TRUE,
                             !.fastWrite = set.ret,
                             !.outcome = IF set.exc # NoExc THEN Failed(OuterExcept(set.exc))
                                         ELSE RespondOuter(cache_data)]
       /\ UNCHANGED <<now, redisUp, cacheExpiryMinutes, durable, flowCalls, origin>>

ColdFetchDropsEntry(lat, lng, radius, force, rfGet, rfSet, ans, dbOk) ==
    LET key == generate_cache_key("traffic_flow", lat, lng, radius)
        fetch == here_get_traffic_flow(ans, lat, lng)
        row == NewRow(flowCalls + 1, fetch.data, now)
        cache_data == cache_data_of(row)
        set == cache_set(key, cache_data, FastTtlMinutes, rfSet)
        req == [Request(lat, lng, radius, force) EXCEPT
                  !.path = "cold", !.fastRead = ~force, !.durableRead = ~force,
                  !.upstream = TRUE, !.fetchExc = fetch.exc]
        outcome == IF fetch.exc # NoExc THEN Failed(OuterExcept(InnerExcept(fetch.exc)))
                   ELSE IF ~dbOk THEN Failed(OuterExcept(InnerExcept(Exc("SQLAlchemyError", 0))))
                   ELSE IF set.exc # NoExc THEN Failed(OuterExcept(InnerExcept(set.exc)))
                   ELSE RespondInner(cache_data)
    IN /\ flowCalls < MaxCold
       /\ force \/ (~cache_get(key, rfGet).hit /\ DurableQuery(lat, lng, now) = {})
       /\ flowCalls' = flowCalls + 1
       /\ IF fetch.exc # NoExc
          THEN /\ last' = [req EXCEPT !.outcome = outcome]
               /\ fast' = [fast EXCEPT ![key] = NoEntry]
               /\ UNCHANGED <<durable, origin>>
          ELSE IF ~dbOk
          THEN /\ last' = [req EXCEPT !.classified = TRUE, !.outcome = outcome]
               /\ UNCHANGED <<fast, durable, origin>>
          ELSE /\ durable' = durable \cup {row}
               /\ fast' = set.store
               /\ origin' = [origin EXCEPT ![row.cache_id] = [key |-> key, outcome |-> outcome]]
               /\ last' = [req EXCEPT !.classified = TRUE, !.src = row.cache_id,
                                      !.durableWrite = TRUE, !.fastWrite = set.ret,
                                      !.outcome = outcome]
       /\ UNCHANGED <<now, redisUp, cacheExpiryMinutes>>

\* lines 72-181: the fetch from HERE, the insert, the Redis write and the response.
\* ans: the upstream's answer; dbOk: db.add/commit/refresh succeed.
ColdFetch(lat, lng, radius, force, rfGet, rfSet, ans, dbOk) ==
    LET key == generate_cache_key("traffic_flow", lat, lng, radius)
        fetch == here_get_traffic_flow(ans, lat, lng)
        row == NewRow(flowCalls + 1, fetch.data, now)
        cache_data == cache_data_of(row)
        set == cache_set(key, cache_data, FastTtlMinutes, rfSet)
        req == [Request(lat, lng, radius, force) EXCEPT
                  !.path = "cold", !.fastRead = ~force, !.durableRead = ~force,
                  !.upstream = TRUE, !.fetchExc = fetch.exc]
        outcome == IF fetch.exc # NoExc THEN Failed(OuterExcept(InnerExcept(fetch.exc)))
                   ELSE IF ~dbOk THEN Failed(OuterExcept(InnerExcept(Exc("SQLAlchemyError", 0))))
                   ELSE IF set.exc # NoExc THEN Failed(OuterExcept(InnerExcept(set.exc)))
                   ELSE RespondInner(cache_data)
    IN /\ flowCalls < MaxCold
       /\ force \/ (~cache_get(key, rfGet).hit /\ DurableQuery(lat, lng, now) = {})
       /\ flowCalls' = flowCalls + 1
       /\ IF fetch.exc # NoExc
          THEN /\ last' = [req EXCEPT !.outcome = outcome]
               /\ UNCHANGED <<fast, durable, origin>>
          ELSE IF ~dbOk
          THEN /\ last' = [req EXCEPT !.classified = TRUE, !.outcome = outcome]
               /\ UNCHANGED <<fast, durable, origin>>
          ELSE /\ durable' = durable \cup {row}
               /\ fast' = set.store
               /\ origin' = [origin EXCEPT ![row.cache_id] = [key |-> key, outcome |-> outcome]]
               /\ last' = [req EXCEPT !.classified = TRUE, !.src = row.cache_id,
                                      !.durableWrite = TRUE, !.fastWrite = set.ret,
                                      !.outcome = outcome]
       /\ UNCHANGED <<now, redisUp, cacheExpiryMinutes>>

\* a Redis call can fail only when there is a client
RedisFailures == IF redisUp THEN BOOLEAN ELSE {FALSE}

\* GET /traffic/flow answered from Redis
GetFlowFast ==
    \E p \in Places, rfGet \in RedisFailures : FastHit(p[1], p[2], p[3], rfGet)

\* GET /traffic/flow answered from the database
GetFlowDurable ==
    \E p \in Places, rfGet \in RedisFailures, rfSet \in RedisFailures :
        DurableHit(p[1], p[2], p[3], rfGet, rfSet)

\* GET /traffic/flow that goes to HERE. An input the handler does not get to use
\* (the Redis read under force_refresh, the insert after a failed fetch, the Redis
\* write after a failed insert) is not varied.
GetFlowCold ==
    \E p \in Places, force \in BOOLEAN, ans \in FlowAnswers :
      \E rfGet \in (IF force THEN {FALSE} ELSE RedisFailures),
         dbOk \in (IF RequestRaises(ans) = NoExc THEN BOOLEAN ELSE {TRUE}) :
        \E rfSet \in (IF RequestRaises(ans) = NoExc /\ dbOk THEN RedisFailures ELSE {FALSE}) :
          ColdFetch(p[1], p[2], p[3], force, rfGet, rfSet, ans, dbOk)

\* the store once the clock shows t: the keys whose expiry has come are gone
Expire(store, t) ==
    [k \in DOMAIN store |->
        IF store[k].exp >= 0 /\ store[k].exp <= t THEN NoEntry ELSE store[k]]

\* time passes; Redis drops the keys whose time to live has run out. The clock
\* starts with the first stored row: the handler reads the time only to compare it
\* with the expiry of stored entries and to stamp new ones.
Tick ==
    /\ now < MaxTicks * TickMinutes
    /\ durable # {}
    /\ now' = now + TickMinutes
    /\ fast' = Expire(fast, now')
    /\ last' = NoRequest
    /\ UNCHANGED <<redisUp, cacheExpiryMinutes, durable, flowCalls, origin>>

----------------------------------------------------------------------------
(* HereClient operations and the /traffic/route handler *)

StopAfterAttempt == 3

\* tenacity.RetryError(last_attempt): the wrapper raised when the attempts run out
RetryError(e) ==
    [type |-> "RetryError", status |-> 0, lastType |-> e.type, lastStatus |-> e.status,
     detail |-> ""]

Incidents == { [id |-> "i1", type |-> "ACCIDENT", criticality |-> "HIGH"] }

IncidentBodies == { <<>> } \cup { <<i>> : i \in Incidents }

IncidentAnswers == { Http(200, b) : b \in IncidentBodies }
                     \cup { Http(s, <<>>) : s \in HttpStatuses \ {200} }
                     \cup { Timeout, ConnFail }

\* a routing answer's data["routes"]: a list of routes, each a list of sections
Sections == { [length |-> 1500, duration |-> 90, trafficDelay |-> 30, polyline |-> "p"],
              [length |-> 700, duration |-> 45, trafficDelay |-> 0, polyline |-> ""] }

RouteBodies == { <<>> } \cup { << <<sec>> >> : sec \in Sections }

\* the failures of a leg: the rate limit, a server error and a timeout
RouteAnswers == { Http(200, b) : b \in RouteBodies }
                  \cup { Http(s, <<>>) : s \in {429, 500} }
                  \cup { Timeout }

\* _parse_incidents_response
parse_incidents_response(body) ==
    [i \in 1..Len(body) |->
        [ here_incident_id |-> body[i].id,
          incident_type |-> body[i].type,
          severity |-> body[i].criticality ]]

NoResult == [state |-> "none", value |-> <<>>, exc |-> NoExc, http |-> Failed(NoExc)]
Returned(v) == [state |-> "returned", value |-> v, exc |-> NoExc, http |-> Failed(NoExc)]
Raised(e) == [state |-> "raised", value |-> <<>>, exc |-> e, http |-> Failed(NoExc)]

NoOp ==
    \* failures: the exceptions the upstream calls of the operation ended in, one per
    \* failed attempt; legs: the legs requested so far in the current attempt;
    \* inRange: every waypoint has lat in [-90, 90] and lng in [-180, 180];
    \* body: the results of the flow answer; bodies: data["routes"] of the legs
    \* answered so far in the current attempt; discarded: an attempt failed after
    \* some of its legs had added to the totals
    [name |-> "none", n |-> 0, inRange |-> TRUE, attempt |-> 0, leg |-> 0, failures |-> <<>>,
     total_length_m |-> 0, total_duration_s |-> 0, total_traffic_delay_s |-> 0,
     all_polylines |-> <<>>, legs |-> <<>>, segment |-> 0,
     body |-> <<>>, bodies |-> <<>>, discarded |-> FALSE]

\* no operation is in progress
Idle == op.name \in {"none", "flow", "incidents"} \/ result.http # Failed(NoExc)

\* a flow answer with two results
MultiSampleBody ==
    << [speed |-> 30, freeFlow |-> 60, jamFactor |-> 5],
       [speed |-> 90, freeFlow |-> 60, jamFactor |-> 5] >>

\* HereClient.get_traffic_flow called on its own, also with an answer without
\* results and with an answer of several results
ClientFlow ==
    /\ Idle
    /\ \E ans \in FlowAnswers \cup {Http(200, <<>>), Http(200, MultiSampleBody)}, p \in Places :
         LET fetch == here_get_traffic_flow(ans, p[1], p[2])
         IN /\ result' = IF fetch.exc # NoExc THEN Raised(fetch.exc) ELSE Returned(fetch.data)
            /\ op' = [NoOp EXCEPT !.name = "flow", !.attempt = 1, !.body = ans.body,
                                  !.failures = IF fetch.exc # NoExc THEN <<fetch.exc>> ELSE <<>>]
    /\ calls' = 1

get_traffic_incidents_reraise(ans) ==
    IF RequestRaises(ans) = NoExc THEN Returned(parse_incidents_response(ans.body))
    ELSE Raised(RequestRaises(ans))

\* HereClient.get_traffic_incidents: one GET; an HTTPError with status 400 gives [],
\* any other exception leaves the method
get_traffic_incidents(ans) ==
    IF RequestRaises(ans) = NoExc THEN Returned(parse_incidents_response(ans.body))
    ELSE IF RequestRaises(ans).type = "HTTPError" /\ RequestRaises(ans).status = 400
    THEN Returned(<<>>)
    ELSE Raised(RequestRaises(ans))

ClientIncidents ==
    /\ Idle
    /\ \E ans \in IncidentAnswers :
         /\ result' = get_traffic_incidents(ans)
         /\ op' = [NoOp EXCEPT !.name = "incidents", !.attempt = 1,
                               !.failures = IF RequestRaises(ans) # NoExc
                                            THEN <<RequestRaises(ans)>> ELSE <<>>]
    /\ calls' = 1

\* POST /traffic/route with n waypoints: fewer than 2 is answered 400 at once,
\* otherwise HereClient.get_route_with_traffic starts its first attempt. The
\* waypoints are List[dict]: neither the schema nor the handler looks at the
\* values of lat and lng.
StartRoute ==
    /\ Idle
    /\ \E n \in 1..MaxWaypoints, inRange \in BOOLEAN :
         /\ op' = [NoOp EXCEPT !.name = "route", !.n = n, !.inRange = inRange,
                               !.attempt = IF n < 2 THEN 0 ELSE 1,
                               !.leg = IF n < 2 THEN 0 ELSE 1]
         /\ result' = IF n < 2
                      THEN [NoResult EXCEPT
                              !.http = Failed(HTTPException(400, "At least 2 waypoints required"))]
                      ELSE [NoResult EXCEPT !.state = "running"]
    /\ calls' = 0

\* the dict get_route_with_traffic returns; total_distance_km is total_length_m / 1000
RouteData(o) ==
    [ total_distance_km |-> [num |-> o.total_length_m, den |-> 1000],
      total_time_minutes |-> o.total_duration_s \div 60,
      traffic_delay_minutes |-> o.total_traffic_delay_s \div 60,
      polyline |-> "",
      sections |-> o.all_polylines ]

RECURSIVE SumField(_, _)
SumField(secs, f) == IF secs = <<>> THEN 0 ELSE secs[1][f] + SumField(Tail(secs), f)

RECURSIVE Polylines(_)
Polylines(secs) ==
    IF secs = <<>> THEN <<>>
    ELSE (IF secs[1].polyline # "" THEN <<secs[1].polyline>> ELSE <<>>) \o Polylines(Tail(secs))

\* lines 120-135: the sections of data["routes"][0] added to the attempt's totals
Accumulate(o, body) ==
    IF Len(body) > 0
    THEN [o EXCEPT !.total_length_m = @ + SumField(body[1], "length"),
                   !.total_duration_s = @ + SumField(body[1], "duration"),
                   !.total_traffic_delay_s = @ + SumField(body[1], "trafficDelay"),
                   !.all_polylines = @ \o Polylines(body[1]),
                   !.bodies = Append(@, body)]
    ELSE [o EXCEPT !.bodies = Append(@, body)]

LegFailureReturnsPartial(o, e) ==
    IF o.attempt >= StopAfterAttempt
    THEN [op |-> [o EXCEPT !.failures = Append(@, e)], result |-> Returned(RouteData(o))]
    ELSE [op |-> [o EXCEPT !.attempt = @ + 1, !.leg = 1, !.failures = Append(@, e),
                           !.total_length_m = 0, !.total_duration_s = 0,
                           !.total_traffic_delay_s = 0, !.all_polylines = <<>>,
                           !.legs = <<>>, !.bodies = <<>>,
                           !.discarded = @ \/ o.total_length_m > 0],
          result |-> [NoResult EXCEPT !.state = "running"]]

LegFailureKeepsTotals(o, e) ==
    IF o.attempt >= StopAfterAttempt
    THEN [op |-> [o EXCEPT !.failures = Append(@, e)], result |-> Raised(RetryError(e))]
    ELSE [op |-> [o EXCEPT !.attempt = @ + 1, !.leg = 1, !.failures = Append(@, e),
                           !.legs = <<>>, !.bodies = <<>>,
                           !.discarded = @ \/ o.total_length_m > 0],
          result |-> [NoResult EXCEPT !.state = "running"]]

LegFailureGivesUpOn429(o, e) ==
    IF o.attempt >= StopAfterAttempt \/ e.status = 429
    THEN [op |-> [o EXCEPT !.failures = Append(@, e)], result |-> Raised(RetryError(e))]
    ELSE [op |-> [o EXCEPT !.attempt = @ + 1, !.leg = 1, !.failures = Append(@, e),
                           !.total_length_m = 0, !.total_duration_s = 0,
                           !.total_traffic_delay_s = 0, !.all_polylines = <<>>,
                           !.legs = <<>>, !.bodies = <<>>,
                           !.discarded = @ \/ o.total_length_m > 0],
          result |-> [NoResult EXCEPT !.state = "running"]]

\* a leg's RequestException leaves the attempt; @retry(stop=stop_after_attempt(3))
\* starts the function again, or raises RetryError once the attempts are used up
LegFailure(o, e) ==
    IF o.attempt >= StopAfterAttempt
    THEN [op |-> [o EXCEPT !.failures = Append(@, e)], result |-> Raised(RetryError(e))]
    ELSE [op |-> [o EXCEPT !.attempt = @ + 1, !.leg = 1, !.failures = Append(@, e),
                           !.total_length_m = 0, !.total_duration_s = 0,
                           !.total_traffic_delay_s = 0, !.all_polylines = <<>>,
                           !.legs = <<>>, !.bodies = <<>>,
                           !.discarded = @ \/ o.total_length_m > 0],
          result |-> [NoResult EXCEPT !.state = "running"]]

LegSuccessStopsEarly(o, body) ==
    IF o.leg >= o.n - 2
    THEN [op |-> [Accumulate(o, body) EXCEPT !.leg = o.n],
          result |-> Returned(RouteData(Accumulate(o, body)))]
    ELSE [op |-> [Accumulate(o, body) EXCEPT !.leg = @ + 1],
          result |-> [NoResult EXCEPT !.state = "running"]]

\* a leg answered 200: its sections are added; after the last leg the dict is returned
LegSuccess(o, body) ==
    IF o.leg = o.n - 1
    THEN [op |-> [Accumulate(o, body) EXCEPT !.leg = o.n],
          result |-> Returned(RouteData(Accumulate(o, body)))]
    ELSE [op |-> [Accumulate(o, body) EXCEPT !.leg = @ + 1],
          result |-> [NoResult EXCEPT !.state = "running"]]

\* the handler's "except Exception as e" around the client calls and the response
RouteHandlerExcept(e) == HTTPException(500, "Failed to get route data")

\* one requests.get of get_route_with_traffic, for leg op.leg of attempt op.attempt
RouteLegCall ==
    /\ op.name = "route"
    /\ result.state = "running"
    /\ \E ans \in RouteAnswers :
         LET o == [op EXCEPT !.legs = Append(@, op.leg)]
             next == IF RequestRaises(ans) # NoExc THEN LegFailure(o, RequestRaises(ans))
                     ELSE LegSuccess(o, ans.body)
         IN /\ op' = [next.op EXCEPT !.segment = IF next.result.state = "returned" THEN 1 ELSE 0]
            /\ result' = IF next.result.state = "raised"
                         THEN [next.result EXCEPT
                                 !.http = Failed(RouteHandlerExcept(next.result.exc))]
                         ELSE next.result
    /\ calls' = calls + 1

RouteTrafficResponseFields == {"route", "segments"}

\* RouteTrafficResponse(**d): route and segments are required
RouteTrafficResponse(d) ==
    IF RouteTrafficResponseFields \subseteq DOMAIN d
    THEN [exc |-> NoExc, rec |-> [f \in RouteTrafficResponseFields |-> d[f]]]
    ELSE [exc |-> Exc("ValidationError", 0), rec |-> <<>>]

\* lines 229-240: the response built from route_data and the segments
RouteResponse(route_data) ==
    RouteTrafficResponse([ total_distance_km |-> route_data.total_distance_km,
                           total_time_minutes |-> route_data.total_time_minutes,
                           traffic_delay_minutes |-> route_data.traffic_delay_minutes,
                           congestion_summary |-> <<>>,
                           route_segments |-> <<>> ])

\* lines 206-242: here_client.get_traffic_flow for the start of segment op.segment,
\* and, after the last segment, the response. The waypoint's coordinates only label
\* the record fetched; one place stands for all.
RouteSegmentFlow ==
    /\ op.name = "route"
    /\ result.state = "returned"
    /\ result.http = Failed(NoExc)
    /\ op.segment \in 1..(op.n - 1)
    /\ \E ans \in FlowAnswers :
         LET fetch == here_get_traffic_flow(ans, 1, 3)
             resp == RouteResponse(result.value)
         IN IF fetch.exc # NoExc
            THEN /\ result' = [result EXCEPT !.http = Failed(RouteHandlerExcept(fetch.exc))]
                 /\ op' = op
            ELSE IF op.segment < op.n - 1
            THEN /\ op' = [op EXCEPT !.segment = @ + 1]
                 /\ result' = result
            ELSE /\ op' = [op EXCEPT !.segment = @ + 1]
                 /\ result' = [result EXCEPT
                                 !.http = IF resp.exc = NoExc THEN Responded(resp.rec)
                                          ELSE Failed(RouteHandlerExcept(resp.exc))]
    /\ calls' = calls

----------------------------------------------------------------------------
(* CacheManager methods called on their own *)

\* the keys the calls below are made with
CacheKeys == { generate_cache_key("traffic_flow", 1, 3, 100), RouteKey, OtherKey }

\* the dicts stored
CacheValues == { [cache_id |-> 1, cached_at |-> 0, expires_at |-> 5] }

\* the older_than argument of a sweep
SweepMinutes == {0, 60}

NoCacheOp ==
    \* failed: the store raised redis.RedisError during the call
    [name |-> "none", key |-> <<>>, minutes |-> 0, failed |-> FALSE, hit |-> FALSE,
     val |-> <<>>, ret |-> FALSE, count |-> 0, exc |-> NoExc]

CacheGet ==
    \E key \in CacheKeys, redisFails \in RedisFailures :
        /\ cacheOp' = [NoCacheOp EXCEPT !.name = "get", !.key = key, !.failed = redisFails,
                                        !.hit = cache_get(key, redisFails).hit,
                                        !.val = cache_get(key, redisFails).val]
        /\ UNCHANGED <<now, redisUp, fast>>

CacheSet ==
    \E key \in CacheKeys, value \in CacheValues, redisFails \in RedisFailures :
        LET set == cache_set(key, value, FastTtlMinutes, redisFails)
        IN /\ cacheOp' = [NoCacheOp EXCEPT !.name = "set", !.key = key, !.failed = redisFails,
                                           !.ret = set.ret, !.exc = set.exc]
           /\ fast' = set.store
           /\ UNCHANGED <<now, redisUp>>

CacheDelete ==
    \E key \in CacheKeys, redisFails \in RedisFailures :
        LET del == cache_delete(key, redisFails)
        IN /\ cacheOp' = [NoCacheOp EXCEPT !.name = "delete", !.key = key,
                                           !.failed = redisFails,
                                           !.ret = del.ret, !.exc = del.exc]
           /\ fast' = del.store
           /\ UNCHANGED <<now, redisUp>>

CacheClearExpired ==
    \E minutes \in SweepMinutes, redisFails \in RedisFailures :
        LET swept == clear_expired(minutes, redisFails)
        IN /\ cacheOp' = [NoCacheOp EXCEPT !.name = "clear_expired", !.minutes = minutes,
                                           !.failed = redisFails, !.count = swept.ret]
           /\ fast' = swept.store
           /\ UNCHANGED <<now, redisUp>>

\* another client of the Redis instance stores a key without expiry
StoreForeignWrite ==
    /\ redisUp
    /\ \E key \in CacheKeys, value \in CacheValues :
         fast' = [fast EXCEPT ![key] = [val |-> JsonRoundTrip(value), exp |-> Persistent]]
    /\ cacheOp' = NoCacheOp
    /\ UNCHANGED <<now, redisUp>>

\* time passes for the store
StoreTick ==
    /\ now < MaxTicks * TickMinutes
    /\ now' = now + TickMinutes
    /\ fast' = Expire(fast, now')
    /\ cacheOp' = NoCacheOp
    /\ UNCHANGED redisUp

----------------------------------------------------------------------------
(* Static methods applied to chosen arguments *)

NoPure == [fn |-> "none"]

\* the speeds the classifier is applied to, in km/h
SpeedSamples == 0..MaxSpeed \cup {39, 40, 59, 60, 79, 80, 100}

\* determine_congestion_level(current_speed, free_flow_speed)
Classify ==
    \E current_speed \in SpeedSamples, free_flow_speed \in SpeedSamples :
        pure' = [fn |-> "determine_congestion_level",
                 current_speed |-> current_speed,
                 free_flow_speed |-> free_flow_speed,
                 out |-> determine_congestion_level(current_speed, free_flow_speed)]

\* strings are sequences of characters; Chars lists the characters in code-point order
Chars == <<":", "a">>

CharRank(c) == CHOOSE i \in 1..Len(Chars) : Chars[i] = c

\* x < y for two str
RECURSIVE StrLess(_, _)
StrLess(x, y) ==
    IF y = <<>> THEN FALSE
    ELSE IF x = <<>> THEN TRUE
    ELSE IF x[1] = y[1] THEN StrLess(Tail(x), Tail(y))
    ELSE CharRank(x[1]) < CharRank(y[1])

\* kwargs: the keyword arguments as a sequence of <<name, str(value)>> in the order
\* they were supplied, each name once
ItemsOf(kwargs) == { kwargs[i] : i \in 1..Len(kwargs) }

\* sorted(kwargs.items()): the items by ascending name
RECURSIVE SortedItems(_)
SortedItems(items) ==
    IF items = {} THEN <<>>
    ELSE LET first == CHOOSE i \in items : \A j \in items : j = i \/ StrLess(i[1], j[1])
         IN <<first>> \o SortedItems(items \ {first})

\* sep.join(parts)
RECURSIVE Join(_, _)
Join(sep, parts) ==
    IF parts = <<>> THEN <<>>
    ELSE IF Len(parts) = 1 THEN parts[1]
    ELSE parts[1] \o sep \o Join(sep, Tail(parts))

\* f"{k}:{v}" for each item, in the order given
KeyParts(items) == [i \in 1..Len(items) |-> items[i][1] \o <<":">> \o items[i][2]]

generate_cache_key_unsorted(prefix, kwargs) ==
    Join(<<":">>, <<prefix>> \o KeyParts(kwargs))

\* CacheManager.generate_cache_key(prefix, **kwargs) as the string it returns
generate_cache_key_kwargs(prefix, kwargs) ==
    Join(<<":">>, <<prefix>> \o KeyParts(SortedItems(ItemsOf(kwargs))))

KeyPrefixes == { <<"a">>, <<"a", ":">>, <<":">> }
ParamNames == { <<"a">>, <<"a", "a">>, <<":", "a">> }
ParamValues == { <<"a">>, <<"a", ":", "a", "a", ":", "a">> }

\* the keyword arguments a call may carry: up to MaxParams items, no name twice
KwargsInputs ==
    { kwargs \in UNION { [1..n -> ParamNames \X ParamValues] : n \in 0..MaxParams } :
        \A i, j \in 1..Len(kwargs) : i # j => kwargs[i][1] # kwargs[j][1] }

\* CacheManager.generate_cache_key(prefix, **kwargs)
BuildKey ==
    \E prefix \in KeyPrefixes, kwargs \in KwargsInputs :
        pure' = [fn |-> "generate_cache_key", prefix |-> prefix, kwargs |-> kwargs,
                 out |-> generate_cache_key_kwargs(prefix, kwargs)]

----------------------------------------------------------------------------
(* The handlers on the event loop of the server process *)

\* uvicorn.run("main:app", ...) starts one server process with one event loop.
\* get_traffic_flow and get_route_with_traffic are "async def" path operations, so
\* each runs as a coroutine on that loop, and the loop runs another coroutine only
\* when the running one awaits. Neither handler awaits: requests.get and the
\* time.sleep of the retry decorator block the loop's thread.

Kinds == {"flow", "route"}

NoLoopRequest == [kind |-> "none", lat |-> 0, lng |-> 0, radius |-> 0, force |-> FALSE]

\* at: "none" not arrived, "accepted" handed to the loop, "upstream" inside requests.get,
\* "backoff" inside the sleep between two attempts, "done" answered
NoLoop ==
    [ holder |-> 0,
      at |-> [r \in 1..MaxRequests |-> "none"],
      req |-> [r \in 1..MaxRequests |-> NoLoopRequest],
      attempt |-> [r \in 1..MaxRequests |-> 0] ]

\* the loop's thread is inside the handler of request r
Blocked(r) == loop.at[r] \in {"upstream", "backoff"}

\* the loop can start the handler of request r
Runnable(r) == loop.holder = 0 /\ loop.at[r] = "accepted"

\* a connection is accepted and its request becomes a task of the loop; the
\* requests are numbered in the order of their arrival
Accept ==
    \E r \in 1..MaxRequests, kind \in Kinds, p \in Places, force \in BOOLEAN :
        /\ loop.at[r] = "none"
        /\ \A earlier \in 1..(r - 1) : loop.at[earlier] # "none"
        /\ kind = "route" => (p = <<1, 3, 100>> /\ ~force)
        /\ loop' = [loop EXCEPT
                      !.at[r] = "accepted",
                      !.req[r] = [kind |-> kind, lat |-> p[1], lng |-> p[2],
                                  radius |-> p[3], force |-> force]]

\* get_traffic_flow answered from Redis or from the table: it makes no blocking
\* call to HERE and runs to its response in one turn of the loop
RunFlowCached ==
    \E r \in 1..MaxRequests :
        LET q == loop.req[r]
        IN /\ Runnable(r)
           /\ q.kind = "flow" /\ ~q.force
           /\ \/ \E rfGet \in RedisFailures : FastHit(q.lat, q.lng, q.radius, rfGet)
              \/ \E rfGet \in RedisFailures, rfSet \in RedisFailures :
                    DurableHit(q.lat, q.lng, q.radius, rfGet, rfSet)
           /\ loop' = [loop EXCEPT !.at[r] = "done"]

\* the handler has to go to HERE: force_refresh, or both tiers miss
GoesUpstream(q) ==
    \/ q.force
    \/ \E rfGet \in RedisFailures :
          /\ ~cache_get(generate_cache_key("traffic_flow", q.lat, q.lng, q.radius), rfGet).hit
          /\ DurableQuery(q.lat, q.lng, now) = {}

\* get_traffic_flow reaches here_client.get_traffic_flow: requests.get(...,
\* timeout=10) is called on the loop's thread
RunFlowCold ==
    \E r \in 1..MaxRequests :
        /\ Runnable(r)
        /\ loop.req[r].kind = "flow"
        /\ GoesUpstream(loop.req[r])
        /\ flowCalls < MaxCold
        /\ loop' = [loop EXCEPT !.holder = r, !.at[r] = "upstream"]

\* what the blocking requests.get of the flow fetch ends with: a response, or the
\* timeout after 10 seconds
LoopFlowAnswers == { Http(200, b) : b \in FlowBodies } \cup { Timeout }

\* requests.get returns or raises; the handler stores the record and answers
FlowUpstreamDone ==
    \E r \in 1..MaxRequests :
        LET q == loop.req[r]
        IN /\ loop.holder = r /\ loop.at[r] = "upstream" /\ q.kind = "flow"
           /\ \E ans \in LoopFlowAnswers :
                \E rfGet \in (IF q.force THEN {FALSE} ELSE RedisFailures),
                   dbOk \in (IF RequestRaises(ans) = NoExc THEN BOOLEAN ELSE {TRUE}) :
                  \E rfSet \in (IF RequestRaises(ans) = NoExc /\ dbOk
                                THEN RedisFailures ELSE {FALSE}) :
                    ColdFetch(q.lat, q.lng, q.radius, q.force, rfGet, rfSet, ans, dbOk)
           /\ loop' = [loop EXCEPT !.holder = 0, !.at[r] = "done"]

\* get_route_with_traffic (the handler), given at least two waypoints, calls
\* here_client.get_route_with_traffic:
\* the first attempt's requests.get(..., timeout=15) is called on the loop's thread
RunRoute ==
    \E r \in 1..MaxRequests :
        /\ Runnable(r)
        /\ loop.req[r].kind = "route"
        /\ loop' = [loop EXCEPT !.holder = r, !.at[r] = "upstream", !.attempt[r] = 1]

\* the attempt's calls are over: with every leg fetched the handler answers; after
\* a failure the retry decorator sleeps before the next attempt, or gives up after
\* the last one and the handler answers 500
RouteUpstreamDone ==
    \E r \in 1..MaxRequests, ok \in BOOLEAN :
        /\ loop.holder = r /\ loop.at[r] = "upstream" /\ loop.req[r].kind = "route"
        /\ loop' = IF ok \/ loop.attempt[r] >= StopAfterAttempt
                   THEN [loop EXCEPT !.holder = 0, !.at[r] = "done"]
                   ELSE [loop EXCEPT !.at[r] = "backoff"]

\* the sleep between two attempts is over (wait_exponential: 2 to 10 seconds)
BackoffOver ==
    \E r \in 1..MaxRequests :
        /\ loop.holder = r /\ loop.at[r] = "backoff"
        /\ loop' = [loop EXCEPT !.at[r] = "upstream", !.attempt[r] = @ + 1]

----------------------------------------------------------------------------
(* Specifications *)

\* the service after start-up: empty tiers, no client operation under way
Init ==
    /\ now = 0
    /\ redisUp \in BOOLEAN
    /\ cacheExpiryMinutes \in ExpiryChoices
    /\ fast = [k \in StoreKeys |-> NoEntry]
    /\ durable = {}
    /\ flowCalls = 0
    /\ last = NoRequest
    /\ origin = [i \in 1..MaxCold |-> NoOrigin]
    /\ calls = 0
    /\ op = NoOp
    /\ result = NoResult
    /\ cacheOp = NoCacheOp
    /\ pure = NoPure
    /\ loop = NoLoop

FlowNext ==
    \/ GetFlowFast /\ UNCHANGED <<clientVars, cacheOp, pure, loop>>
    \/ GetFlowDurable /\ UNCHANGED <<clientVars, cacheOp, pure, loop>>
    \/ GetFlowCold /\ UNCHANGED <<clientVars, cacheOp, pure, loop>>
    \/ Tick /\ UNCHANGED <<clientVars, cacheOp, pure, loop>>

\* the /traffic/flow handler over the two cache tiers
Spec == Init /\ [][FlowNext]_vars

ClientNext ==
    \/ ClientFlow /\ UNCHANGED <<flowVars, cacheOp, pure, loop>>
    \/ ClientIncidents /\ UNCHANGED <<flowVars, cacheOp, pure, loop>>
    \/ StartRoute /\ UNCHANGED <<flowVars, cacheOp, pure, loop>>
    \/ RouteLegCall /\ UNCHANGED <<flowVars, cacheOp, pure, loop>>
    \/ RouteSegmentFlow /\ UNCHANGED <<flowVars, cacheOp, pure, loop>>

\* the HereClient operations and the /traffic/route handler
ClientSpec == Init /\ [][ClientNext]_vars

\* get_route_with_traffic runs on: each requests.get returns or times out after
\* 15 s, and each wait between attempts is at most 10 s
ClientFairSpec ==
    ClientSpec /\ WF_vars(RouteLegCall /\ UNCHANGED <<flowVars, cacheOp, pure, loop>>)

CacheNext ==
    \/ CacheGet /\ UNCHANGED <<cacheExpiryMinutes, durable, flowCalls, last, origin, clientVars, pure, loop>>
    \/ CacheSet /\ UNCHANGED <<cacheExpiryMinutes, durable, flowCalls, last, origin, clientVars, pure, loop>>
    \/ CacheDelete /\ UNCHANGED <<cacheExpiryMinutes, durable, flowCalls, last, origin, clientVars, pure, loop>>
    \/ CacheClearExpired /\ UNCHANGED <<cacheExpiryMinutes, durable, flowCalls, last, origin, clientVars, pure, loop>>
    \/ StoreForeignWrite /\ UNCHANGED <<cacheExpiryMinutes, durable, flowCalls, last, origin, clientVars, pure, loop>>
    \/ StoreTick /\ UNCHANGED <<cacheExpiryMinutes, durable, flowCalls, last, origin, clientVars, pure, loop>>

\* the CacheManager over the Redis instance
CacheSpec == Init /\ [][CacheNext]_vars

PureNext ==
    \/ Classify /\ UNCHANGED <<flowVars, clientVars, cacheOp, loop>>
    \/ BuildKey /\ UNCHANGED <<flowVars, clientVars, cacheOp, loop>>

\* the static methods of HereClient and CacheManager
PureSpec == Init /\ [][PureNext]_vars

LoopNext ==
    \/ Accept /\ UNCHANGED <<flowVars, clientVars, cacheOp, pure>>
    \/ RunFlowCached /\ UNCHANGED <<clientVars, cacheOp, pure>>
    \/ RunFlowCold /\ UNCHANGED <<flowVars, clientVars, cacheOp, pure>>
    \/ FlowUpstreamDone /\ UNCHANGED <<clientVars, cacheOp, pure>>
    \/ RunRoute /\ UNCHANGED <<flowVars, clientVars, cacheOp, pure>>
    \/ RouteUpstreamDone /\ UNCHANGED <<flowVars, clientVars, cacheOp, pure>>
    \/ BackoffOver /\ UNCHANGED <<flowVars, clientVars, cacheOp, pure>>

\* the requests of several clients on the event loop of the server process
LoopSpec == Init /\ [][LoopNext]_vars

----------------------------------------------------------------------------
(* Properties of the /traffic/flow handler, checked under Spec *)

KeyOf(req) == generate_cache_key("traffic_flow", req.lat, req.lng, req.radius)

\* the rows stored for the location of a request
RowsAt(req) ==
    { row \in durable : row.start_latitude = req.lat /\ row.start_longitude = req.lng }

\* the Redis write of a request did not fail (it is skipped without a client)
FastWriteOk(req) == req.fastWrite \/ ~redisUp

\* C1: cache round-trip. After one cold fetch whose row and Redis entry were
\* written (the only upstream call so far), a request for the same lat, lng and
\* radius without force_refresh, made while neither entry has expired, is answered
\* with a record, the same answer the first request got, and the count of upstream
\* flow calls stays 1.
C1_CacheRoundTrip ==
    [][ \A row \in durable :
          ( /\ now' = now
            /\ ~last'.force
            /\ flowCalls = 1
            /\ durable = {row}
            /\ origin[row.cache_id].key = KeyOf(last')
            /\ row.expires_at > now
            /\ redisUp => (HasEntry(KeyOf(last')) /\ fast[KeyOf(last')].exp > now) )
          => ( /\ flowCalls' = 1
               /\ last'.outcome.kind = "record"
               /\ last'.outcome = origin[row.cache_id].outcome ) ]_vars

\* C2: a request whose upstream call and database insert succeeded, and a request
\* served from a Redis hit or a database hit, ends with the record returned to the
\* caller and never with an error.
C2_RespondsWithRecord ==
    ( \/ last.path = "cold" /\ last.durableWrite /\ FastWriteOk(last)
      \/ last.path = "fast"
      \/ last.path = "durable" /\ FastWriteOk(last) )
    => last.outcome.kind = "record"

\* C3: expiry. The database lookup of a request never selects a row whose
\* expires_at is not later than the current time, and a request without
\* force_refresh that misses Redis while every row of its location has expired
\* issues a new upstream flow call.
C3_ExpiredIsMiss ==
    [][ (now' = now /\ ~last'.force) =>
          /\ last'.path = "durable" =>
                \E row \in RowsAt(last') : row.cache_id = last'.src /\ row.expires_at > now
          /\ ( /\ last'.path # "fast"
               /\ \A row \in RowsAt(last') : row.expires_at <= now )
             => ( last'.path = "cold" /\ last'.upstream /\ flowCalls' = flowCalls + 1 ) ]_vars

\* C3 witness: a request without force_refresh went to HERE although the database
\* held a row for its location, because that row had expired.
C3_Witness ==
    /\ last.path = "cold"
    /\ ~last.force
    /\ \E row \in RowsAt(last) : row.cache_id # last.src /\ row.expires_at <= now

\* C4: force refresh. A request with force_refresh reads neither tier and calls
\* HERE; when the call succeeds it classifies, writes the row and the Redis entry
\* and answers the caller with the record.
C4_ForceRefresh ==
    last.force =>
        /\ ~last.fastRead /\ ~last.durableRead /\ last.upstream
        /\ (last.fetchExc = NoExc /\ last.durableWrite /\ FastWriteOk(last))
              => (last.classified /\ last.outcome.kind = "record")

\* the part of C4 about the tiers being bypassed and HERE being called
C4_BypassOnly ==
    last.force => (~last.fastRead /\ ~last.durableRead /\ last.upstream)

\* what the caller of /traffic/flow gets when the upstream call ends in exception e
FlowFailureOutcome(e) == Failed(OuterExcept(InnerExcept(e)))

\* C5: rate-limit propagation. When HERE answers the cold fetch with status 429 the
\* caller gets a rate-limited failure (status 429), which differs from what it gets
\* when HERE answers with status 500.
C5_RateLimitDistinct ==
    (last.path = "cold" /\ last.fetchExc = Exc("HTTPError", 429))
    => ( /\ last.outcome.status = 429
         /\ last.outcome # FlowFailureOutcome(Exc("HTTPError", 500)) )

\* C12: a failed database write does not block the response. When the upstream
\* call succeeded and db.add/commit failed, the caller still gets the freshly
\* fetched record.
C12_DurableWriteFailureTolerated ==
    (last.path = "cold" /\ last.fetchExc = NoExc /\ last.classified /\ ~last.durableWrite)
    => last.outcome.kind = "record"

\* C13: when the upstream call of a request fails, the request ends in an error and
\* Redis and the traffic_cache table are exactly what they were before the request.
C13_FailedFetchTouchesNothing ==
    [][ (now' = now /\ last'.path = "cold" /\ last'.fetchExc # NoExc) =>
          /\ last'.outcome.kind = "error"
          /\ fast' = fast
          /\ durable' = durable ]_vars

\* C13 witness: the upstream call of a forced refresh failed while the table held a
\* row and Redis an entry for the request's key.
C13_Witness ==
    /\ last.path = "cold" /\ last.force
    /\ last.fetchExc # NoExc
    /\ RowsAt(last) # {}
    /\ HasEntry(KeyOf(last))

\* C19: promotion of a database hit. When Redis misses and the table holds an
\* unexpired row for the request, the request issues no upstream call, writes the
\* row's record into Redis under the request's key whenever Redis is available, and
\* answers the caller with the record.
C19_DurableHitPromotion ==
    [][ (now' = now /\ last'.path = "durable") =>
          /\ flowCalls' = flowCalls
          /\ \E row \in DurableQuery(last'.lat, last'.lng, now) :
                /\ row.cache_id = last'.src
                /\ FastWriteOk(last') /\ redisUp =>
                      /\ fast'[KeyOf(last')].exp > now
                      /\ fast'[KeyOf(last')].val = JsonRoundTrip(cache_data_of(row))
          /\ FastWriteOk(last') => last'.outcome.kind = "record" ]_vars

\* the part of C19 about the upstream and the Redis write
C19_PromotionOnly ==
    [][ (now' = now /\ last'.path = "durable") =>
          /\ flowCalls' = flowCalls
          /\ \E row \in DurableQuery(last'.lat, last'.lng, now) :
                /\ row.cache_id = last'.src
                /\ FastWriteOk(last') /\ redisUp =>
                      /\ fast'[KeyOf(last')].exp > now
                      /\ fast'[KeyOf(last')].val = JsonRoundTrip(cache_data_of(row)) ]_vars

\* the congestion level of a stored record is the classifier's value for its speeds
LocallyDerived(rec) ==
    rec.congestion_level =
        determine_congestion_level(rec.current_speed_kmph, rec.free_flow_speed_kmph)

\* C20: every record the handler wrote to the table or to Redis carries the
\* congestion level the classifier gives for that record's own current speed and
\* free-flow speed.
C20_LocallyDerivedTier ==
    /\ \A row \in durable : LocallyDerived(row)
    /\ \A key \in Keys : HasEntry(key) => LocallyDerived(fast[key].val)

\* the row a request inserted or was answered from
RowOf(req) == { row \in durable : row.cache_id = req.src }

\* C22: same time to live in both tiers. For every configured CACHE_EXPIRY_MINUTES,
\* the time to live of the Redis entry a cold fetch writes equals expires_at -
\* cached_at of the row it inserts.
C22_SameTtlBothTiers ==
    (last.path = "cold" /\ last.durableWrite /\ last.fastWrite) =>
        \A row \in RowOf(last) :
            fast[KeyOf(last)].exp - row.cached_at = row.expires_at - row.cached_at

\* C23: every row written to the table has expires_at later than cached_at, for
\* every value of CACHE_EXPIRY_MINUTES.
C23_ExpiryAfterCreation ==
    \A row \in durable : row.expires_at > row.cached_at

\* C28: no stale serve. A request answered from Redis or from the table is never
\* answered with a record whose expires_at is not later than the time of the
\* request, and no Redis entry, one written by promotion included, lives beyond the
\* expires_at of the record it holds.
C28_NoStaleServe ==
    /\ last.path = "fast" => fast[KeyOf(last)].val.expires_at[2] > now
    /\ last.path = "durable" => \A row \in RowOf(last) : row.expires_at > now
    /\ \A key \in Keys : HasEntry(key) => fast[key].exp <= fast[key].val.expires_at[2]

\* the stale serve that comes from promotion alone: with the table's lifetime no
\* shorter than the Redis time to live
C28_StaleByPromotion ==
    (cacheExpiryMinutes >= FastTtlMinutes /\ last.path = "fast")
    => fast[KeyOf(last)].val.expires_at[2] > now

\* C29: a fresher fetch supersedes the older record. The table never holds two
\* unexpired rows for one location, and a request answered from the table is
\* answered from the row fetched last for its location.
C29_FresherSupersedes ==
    /\ \A r1, r2 \in durable :
          ( /\ r1.start_latitude = r2.start_latitude
            /\ r1.start_longitude = r2.start_longitude
            /\ r1.expires_at > now /\ r2.expires_at > now ) => r1 = r2
    /\ last.path = "durable" => \A row \in RowsAt(last) : row.cache_id <= last.src

\* C31: the two tiers agree on request identity. A request answered from the table
\* is answered with a row that was fetched for the same lat, lng and radius, the
\* three values that make the Redis key.
C31_TiersAgreeOnIdentity ==
    last.path = "durable" => origin[last.src].key = KeyOf(last)

----------------------------------------------------------------------------
(* Properties of the handlers on the event loop, checked under LoopSpec *)

\* the request can be answered from Redis or from the table
CacheAnswerable(q) ==
    /\ q.kind = "flow" /\ ~q.force
    /\ \/ cache_get(generate_cache_key("traffic_flow", q.lat, q.lng, q.radius), FALSE).hit
       \/ DurableQuery(q.lat, q.lng, now) # {}

\* C30: one slow upstream call cannot stall other requests. While a request is
\* inside an upstream call or inside the sleep between two attempts, an accepted
\* request that can be answered from a cache tier is able to run to its response.
C30_NoStall ==
    \A r \in 1..MaxRequests, s \in 1..MaxRequests :
        (Blocked(r) /\ loop.at[s] = "accepted" /\ CacheAnswerable(loop.req[s]))
        => ENABLED (RunFlowCached /\ loop'.at[s] = "done")

----------------------------------------------------------------------------
(* Properties of the HereClient operations, checked under ClientSpec *)

\* an operation that makes one upstream call per attempt
SingleCall == op.name \in {"flow", "incidents"} \/ (op.name = "route" /\ op.n = 2)

\* C6: retry budget for the flow fetch, the incidents fetch and the route fetch over
\* one leg alike: the operation gives up only after 3 failed upstream invocations,
\* and when the first two invocations fail and the third succeeds it returns after
\* exactly 3 invocations.
C6_RetryBudget ==
    SingleCall =>
        /\ result.state = "raised" => (Len(op.failures) = StopAfterAttempt /\ calls = 3)
        /\ (result.state = "returned" /\ Len(op.failures) = 2) => calls = 3

\* the route fetch alone keeps the retry budget
C6_RouteOnly ==
    (op.name = "route" /\ op.n = 2) =>
        /\ result.state = "raised" => (Len(op.failures) = StopAfterAttempt /\ calls = 3)
        /\ (result.state = "returned" /\ Len(op.failures) = 2) => calls = 3

\* C7: when all 3 attempts of a route fetch fail, the exception the client raises to
\* its caller is the last upstream failure itself, not a retry wrapper.
C7_RootCauseSurfaced ==
    (op.name = "route" /\ result.state = "raised") =>
        /\ result.exc.type # "RetryError"
        /\ result.exc = op.failures[Len(op.failures)]

\* C8: route atomicity. Once a leg of a route over 2 or more waypoints has failed in
\* the last attempt, the route fetch has raised, returns no route data, and the
\* handler answers with an error that carries no distance, time, delay or geometry.
C8_RouteAtomicity ==
    (op.name = "route" /\ op.n >= 2 /\ Len(op.failures) = StopAfterAttempt) =>
        /\ result.state = "raised"
        /\ result.value = <<>>
        /\ result.http.kind = "error"
        /\ result.http.rec = <<>>

\* C8 witness: over 3 waypoints, leg 1 of the last attempt succeeded and had added
\* its length to the totals, leg 2 failed, and the fetch raised.
C8_Witness ==
    /\ op.name = "route" /\ op.n = 3
    /\ Len(op.failures) = StopAfterAttempt
    /\ op.legs = <<1, 2>>
    /\ op.total_length_m > 0
    /\ result.state = "raised"

\* C9: an incidents fetch that HERE answers with status 400 returns the empty list
\* and raises nothing.
C9_IncidentsDegrade ==
    (op.name = "incidents" /\ op.failures = <<Exc("HTTPError", 400)>>) =>
        (result.state = "returned" /\ result.value = <<>> /\ result.exc = NoExc)

\* C9 witness: HERE answered an incidents fetch with status 400.
C9_Witness ==
    /\ op.name = "incidents"
    /\ op.failures = <<Exc("HTTPError", 400)>>
    /\ calls = 1

\* C10: the incidents fetch never raises, whatever the upstream does.
C10_IncidentsNeverRaise ==
    op.name = "incidents" => result.state # "raised"

\* C17: validation precedes the upstream. A route request with fewer than 2
\* waypoints, or with a waypoint whose latitude or longitude is out of range, issues
\* no upstream call and is answered with a validation error.
C17_ValidationPrecedesUpstream ==
    (op.name = "route" /\ (op.n < 2 \/ ~op.inRange)) =>
        /\ calls = 0
        /\ result.state # "running" =>
              (result.http.kind = "error" /\ result.http.status \in {400, 422})

\* the waypoint count alone is validated before the upstream
C17_CountOnly ==
    (op.name = "route" /\ op.n < 2) =>
        (calls = 0 /\ result.http.kind = "error" /\ result.http.status = 400)

\* the arithmetic mean of field f over the results of a flow answer
MeanOf(body, f) == SumField(body, f) \div Len(body)

\* C21: mean aggregation. When the flow answer holds several results, the speed and
\* the free-flow speed of the record the flow fetch returns are the arithmetic
\* means over all results, and its congestion level is the classifier's value for
\* these means.
C21_MeanAggregation ==
    (op.name = "flow" /\ result.state = "returned" /\ Len(op.body) > 1) =>
        /\ result.value.current_speed_kmph = MeanOf(op.body, "speed")
        /\ result.value.free_flow_speed_kmph = MeanOf(op.body, "freeFlow")
        /\ result.value.congestion_level =
              determine_congestion_level(MeanOf(op.body, "speed"), MeanOf(op.body, "freeFlow"))

\* C24: a route fetch over n >= 2 waypoints in which no upstream call failed has
\* issued exactly n - 1 upstream calls, for the legs 1, 2, ..., n - 1 in this order.
C24_OneCallPerLeg ==
    (op.name = "route" /\ op.n >= 2 /\ result.state = "returned" /\ op.failures = <<>>) =>
        /\ calls = op.n - 1
        /\ op.legs = [i \in 1..(op.n - 1) |-> i]

\* C24 witness: a route over 3 waypoints was returned without any failed call.
C24_Witness ==
    /\ op.name = "route" /\ op.n = 3
    /\ result.state = "returned"
    /\ op.failures = <<>>
    /\ calls = 2

\* C25: a returned route is complete. Every one of the n - 1 legs was answered with
\* route data that went into the totals, and the result holds one geometry per
\* leg; a leg answered 200 without a route makes the fetch fail.
C25_RouteComplete ==
    (op.name = "route" /\ op.n >= 2 /\ result.state = "returned") =>
        /\ Len(op.bodies) = op.n - 1
        /\ \A i \in 1..Len(op.bodies) : op.bodies[i] # <<>>
        /\ Len(result.value.sections) = op.n - 1

\* the sections of the routes the legs of an attempt were answered with
RECURSIVE AttemptSections(_)
AttemptSections(bodies) ==
    IF bodies = <<>> THEN <<>>
    ELSE (IF bodies[1] = <<>> THEN <<>> ELSE bodies[1][1]) \o AttemptSections(Tail(bodies))

\* C26: route totals count each leg once. Whenever a route fetch returns, also
\* after one or two failed attempts, the distance is the summed section lengths of
\* the returning attempt over 1000, and the time and the delay are its summed
\* durations and delays in whole minutes; nothing added in a failed attempt is in.
C26_TotalsOfOneAttempt ==
    (op.name = "route" /\ op.n >= 2 /\ result.state = "returned") =>
        /\ result.value.total_distance_km =
              [num |-> SumField(AttemptSections(op.bodies), "length"), den |-> 1000]
        /\ result.value.total_time_minutes =
              SumField(AttemptSections(op.bodies), "duration") \div 60
        /\ result.value.traffic_delay_minutes =
              SumField(AttemptSections(op.bodies), "trafficDelay") \div 60

\* C26 witness: a route was returned after an attempt had failed with lengths
\* already added to its totals.
C26_Witness ==
    /\ op.name = "route" /\ result.state = "returned"
    /\ op.failures # <<>>
    /\ op.discarded
    /\ op.total_length_m > 0

\* the bounds of C27 in one state
RetryBounds ==
    (op.name = "route" /\ op.n >= 2) =>
        /\ op.attempt \in 1..StopAfterAttempt
        /\ calls <= StopAfterAttempt * (op.n - 1)
        /\ Len(op.failures) <= StopAfterAttempt
        /\ result.state = "raised" <=> Len(op.failures) = StopAfterAttempt
        /\ Len(op.failures) < StopAfterAttempt => op.attempt = Len(op.failures) + 1
        /\ result.state \in {"running", "returned", "raised"}

\* C27: bounded retry. A route fetch over n waypoints makes at most 3 attempts and
\* at most 3 * (n - 1) upstream calls; every failed call, a 429 like any other,
\* uses up one attempt and is followed by a new attempt until 3 have failed, and
\* only then the fetch raises; and every route fetch that was started ends, with
\* a route or with a failure.
C27_BoundedRetry ==
    /\ []RetryBounds
    /\ (op.name = "route" /\ result.state = "running")
          ~> (op.name = "route" /\ result.state \in {"returned", "raised"})

\* C27 witness: over 3 waypoints each of the 3 attempts failed on its last leg,
\* the first with a 429, after 6 upstream calls.
C27_Witness ==
    /\ op.name = "route" /\ op.n = 3
    /\ result.state = "raised"
    /\ calls = 6
    /\ op.failures[1] = Exc("HTTPError", 429)

----------------------------------------------------------------------------
(* Properties of the CacheManager, checked under CacheSpec *)

\* the call found no usable store: there was no client, or the store raised
StoreUnavailable == ~redisUp \/ cacheOp.failed

\* C11: the cache manager never raises to its caller. When there is no Redis client
\* or the store fails during the call, get gives a miss, and set and delete give
\* False, without an exception.
C11_FastCacheNeverRaises ==
    (cacheOp.name \in {"get", "set", "delete"} /\ StoreUnavailable) =>
        /\ cacheOp.exc = NoExc
        /\ cacheOp.name = "get" => ~cacheOp.hit
        /\ cacheOp.name \in {"set", "delete"} => cacheOp.ret = FALSE

\* get and delete alone keep C11
C11_GetDeleteOnly ==
    (cacheOp.name \in {"get", "delete"} /\ StoreUnavailable) =>
        /\ cacheOp.exc = NoExc
        /\ cacheOp.name = "get" => ~cacheOp.hit
        /\ cacheOp.name = "delete" => cacheOp.ret = FALSE

\* a key under one of the prefixes the sweep lists
Tracked(key) == key[1] \in {"traffic_flow", "route"}

\* the store reports no remaining time to live for the key, or one that is not positive
NoTimeLeft(key) == fast[key].exp = Persistent \/ fast[key].exp <= now

----------------------------------------------------------------------------
(* Properties of the static methods, checked under PureSpec *)

\* the classification by the ratio current speed / free-flow speed, each band's
\* lower bound inclusive: ratio >= 4/5, >= 3/5, >= 2/5
ReferenceLevel(currentSpeed, freeFlowSpeed) ==
    IF freeFlowSpeed = 0 THEN "UNKNOWN"
    ELSE IF 5 * currentSpeed >= 4 * freeFlowSpeed THEN "LOW"
    ELSE IF 5 * currentSpeed >= 3 * freeFlowSpeed THEN "MODERATE"
    ELSE IF 5 * currentSpeed >= 2 * freeFlowSpeed THEN "HIGH"
    ELSE "SEVERE"

\* the boundary values named for free-flow speed 100
BoundaryLevel(currentSpeed) ==
    CASE currentSpeed = 80 -> "LOW"
      [] currentSpeed = 79 -> "MODERATE"
      [] currentSpeed = 60 -> "MODERATE"
      [] currentSpeed = 59 -> "HIGH"
      [] currentSpeed = 40 -> "HIGH"
      [] currentSpeed = 39 -> "SEVERE"

C15_KeyDeterminism ==
    pure.fn = "generate_cache_key" =>
        \A kwargs \in KwargsInputs :
            ItemsOf(kwargs) = ItemsOf(pure.kwargs) =>
                generate_cache_key_kwargs(pure.prefix, kwargs) = pure.out

\* C15 witness: a key was built from two arguments supplied in descending order of
\* their names.
C15_Witness ==
    /\ pure.fn = "generate_cache_key"
    /\ Len(pure.kwargs) = 2
    /\ StrLess(pure.kwargs[2][1], pure.kwargs[1][1])

\* C16: key injectivity. Another call yields the same key only if it has the same
\* prefix and the same arguments (same names, same rendered values), also when
\* names or values contain the separator ":".
C16_KeyInjectivity ==
    pure.fn = "generate_cache_key" =>
        \A prefix \in KeyPrefixes, kwargs \in KwargsInputs :
            generate_cache_key_kwargs(prefix, kwargs) = pure.out =>
                (prefix = pure.prefix /\ ItemsOf(kwargs) = ItemsOf(pure.kwargs))

====
